---- MODULE Spec2Model ----
(***************************************************************************)
(* Model of the step generator of telescope_dec/src/main.cpp: the Runner   *)
(* record, the motion commands of handleLine, serviceStepper and the       *)
(* "move done" notification of loop().                                     *)
(*                                                                         *)
(* One loop() iteration is serviceSerial (zero or more handleLine calls,   *)
(* one action per command line) followed by serviceStepper and the         *)
(* notification check (the action loop).                                   *)
(***************************************************************************)
EXTENDS Integers, Sequences, FiniteSets, TLC

\* ------------------------------------------------------------------ bounds
\* largest |steps| of a move command
MaxSteps == 2
\* number of loop() iterations explored by Spec
MaxTicks == 3

\* number of loop() iterations explored by SpecWrap
MaxWrapTicks == 7

\* ------------------------------------------------------- program constants
HIGH == TRUE
LOW == FALSE
EN_ACTIVE_LOW == TRUE
pulseWidthUs == 3
\* micros() and the deadlines are uint32_t.  TLC integers are 32-bit signed,
\* so the wrapping clock is modelled on 30 bits: every interval of the program
\* (at most 1000000 us) stays far below half the wrap period, as on 32 bits.
ClockBits == 30
Wrap == 2 ^ ClockBits
HalfWrap == 2 ^ (ClockBits - 1)
\* int has 16 bits on the AVR Nano the sketch names
AvrIntBits == 16

\* ------------------------------------------------------------------ inputs
\* a command argument is absent, not a number, or a decimal number
NoArg == [k |-> "none", v |-> 0]
Junk == [k |-> "junk", v |-> 0]
Num(n) == [k |-> "num", v |-> n]
BoolArgs == {NoArg, Junk, Num(0), Num(1)}
SpsArgs == {NoArg, Junk, Num(0), Num(-500), Num(50000)}
StepArgs == {NoArg, Junk} \cup {Num(n) : n \in (0 - MaxSteps) .. MaxSteps}
\* time between two consecutive reads of micros() while stepping
TickGaps == {1, 3, 25}
\* time spent in a run of iterations that find nothing to do (and in setup)
IdleGaps == {HalfWrap - 28}
\* coarse tick spacing of the liveness specification
LiveGaps == {2 ^ (ClockBits - 3), 2 ^ (ClockBits - 2)}

VARIABLES
    \* struct Runner
    enabled, continuous, dir, remaining, stepIntervalUs, nextStepUs,
    stepHigh, stepHighUntilUs, lastSps,
    \* output pins
    stepPin, dirPin, enPin,
    \* static long lastRemaining of loop()
    lastRemaining,
    \* value of the last micros() read
    clock,
    \* history: levels written to STEP_PIN by the last step
    stepWrites,
    \* history: the last step printed "move done"
    reported,
    \* history: real time since the last rising edge (saturates at Wrap)
    sinceRise,
    \* history: stepIntervalUs used to schedule nextStepUs
    riseInterval,
    \* history: rising edges of the move that is the last motion command
    edges,
    \* history: last accepted motion command, "none" | "stop" | "run" | "move"
    lastMotion,
    \* history: |steps| of the move that is the last motion command
    moveN,
    \* history: loop() iterations so far (Spec only)
    ticks,
    \* operands and outcome of one deadline comparison (SpecCmp only):
    \* the deadline, the true time from the deadline to now, and
    \* "none" | "reached" | "waiting"
    cmpDeadline, cmpOffset, cmpResult

runVars == <<enabled, continuous, dir, remaining, stepIntervalUs, nextStepUs,
             stepHigh, stepHighUntilUs, lastSps>>
pinVars == <<stepPin, dirPin, enPin>>
histVars == <<stepWrites, reported, sinceRise, riseInterval, edges,
              lastMotion, moveN, ticks>>
cmpVars == <<cmpDeadline, cmpOffset, cmpResult>>
vars == <<runVars, pinVars, lastRemaining, clock, histVars, cmpVars>>

Min(a, b) == IF a < b THEN a ELSE b

\* ------------------------------------------------------ integer conversions
\* two's complement value of v in w bits
ToInt(w, v) == ((v + 2 ^ (w - 1)) % (2 ^ w)) - 2 ^ (w - 1)
\* uint32_t arithmetic
U32(v) == v % Wrap
\* (int32_t)(a - b)
signedDiff(a, b) == ToInt(ClockBits, U32(a - b))
\* atoi(a): 0 for a non-number; a number is kept where int has 32 bits and
\* wraps where int has 16 bits
atoi(a) == IF a.k = "junk" THEN {0} ELSE {a.v, ToInt(AvrIntBits, a.v)}
\* atol(a) for |a| <= MaxSteps
atol(a) == IF a.k = "junk" THEN 0 ELSE a.v

\* ------------------------------------------------------------ Runner setters
setEnable(on) ==
    /\ enabled' = on
    /\ enPin' = (IF (IF EN_ACTIVE_LOW THEN ~on ELSE on) THEN HIGH ELSE LOW)

setDir(d) ==
    /\ dir' = d
    /\ dirPin' = (IF d THEN HIGH ELSE LOW)

\* mutant of setSpeedSps: the sanity cap at 40000 is missing
setSpeedSps_NoCap(sps_abs) ==
    LET s1 == IF sps_abs < 1 THEN 1 ELSE sps_abs
        iv == U32(1000000 \div s1)
    IN /\ lastSps' = s1
       /\ stepIntervalUs' = (IF iv < pulseWidthUs + 4 THEN pulseWidthUs + 4 ELSE iv)

setSpeedSps(sps_abs) ==
    LET s1 == IF sps_abs < 1 THEN 1 ELSE sps_abs
        s2 == IF s1 > 40000 THEN 40000 ELSE s1
        iv == U32(1000000 \div s2)
    IN /\ lastSps' = s2
       /\ stepIntervalUs' = (IF iv < pulseWidthUs + 4 THEN pulseWidthUs + 4 ELSE iv)

\* --------------------------------------------------------------------- Init
Init ==
    /\ enabled = FALSE
    /\ continuous = FALSE
    /\ dir = FALSE
    /\ remaining = 0
    /\ stepIntervalUs = 2000
    /\ nextStepUs = 0
    /\ stepHigh = FALSE
    /\ stepHighUntilUs = 0
    /\ lastSps = 500
    /\ stepPin = LOW
    /\ dirPin = LOW
    /\ enPin = HIGH
    /\ lastRemaining = -1
    /\ clock = 0
    /\ stepWrites = <<>>
    /\ reported = FALSE
    /\ sinceRise = Wrap
    /\ riseInterval = 0
    /\ edges = 0
    /\ lastMotion = "none"
    /\ moveN = 0
    /\ ticks = 0
    /\ cmpDeadline = 0
    /\ cmpOffset = 0
    /\ cmpResult = "none"

\* what every handled command line does to the history
cmdHist ==
    /\ stepWrites' = <<>>
    /\ reported' = FALSE
    /\ UNCHANGED <<sinceRise, riseInterval, ticks, cmpVars>>

\* ---------------------------------------------------------------- handleLine
cmdEnable(a) ==
    /\ \E v \in (IF a = NoArg THEN {0} ELSE atoi(a)) :
           setEnable(a /= NoArg /\ v /= 0)
    /\ cmdHist
    /\ UNCHANGED <<continuous, dir, remaining, stepIntervalUs, nextStepUs,
                   stepHigh, stepHighUntilUs, lastSps, stepPin, dirPin,
                   lastRemaining, clock, edges, lastMotion, moveN>>

cmdDir(a) ==
    /\ \E v \in (IF a = NoArg THEN {0} ELSE atoi(a)) :
           setDir(a /= NoArg /\ v /= 0)
    /\ cmdHist
    /\ UNCHANGED <<enabled, continuous, remaining, stepIntervalUs, nextStepUs,
                   stepHigh, stepHighUntilUs, lastSps, stepPin, enPin,
                   lastRemaining, clock, edges, lastMotion, moveN>>

\* mutant of cmdStop: the remaining count is left as it is
cmdStop_KeepsRemaining ==
    /\ continuous' = FALSE
    /\ cmdHist
    /\ edges' = 0
    /\ lastMotion' = "stop"
    /\ moveN' = 0
    /\ UNCHANGED <<enabled, dir, remaining, stepIntervalUs, nextStepUs,
                   stepHigh, stepHighUntilUs, lastSps, pinVars, lastRemaining,
                   clock>>

\* mutant of cmdStop: a pulse in progress is cut short
cmdStop_CutsPulse ==
    /\ continuous' = FALSE
    /\ remaining' = 0
    /\ stepHigh' = FALSE
    /\ stepPin' = LOW
    /\ cmdHist
    /\ edges' = 0
    /\ lastMotion' = "stop"
    /\ moveN' = 0
    /\ UNCHANGED <<enabled, dir, stepIntervalUs, nextStepUs, stepHighUntilUs,
                   lastSps, dirPin, enPin, lastRemaining, clock>>

cmdStop ==
    /\ continuous' = FALSE
    /\ remaining' = 0
    /\ cmdHist
    /\ edges' = 0
    /\ lastMotion' = "stop"
    /\ moveN' = 0
    /\ UNCHANGED <<enabled, dir, stepIntervalUs, nextStepUs, stepHigh,
                   stepHighUntilUs, lastSps, pinVars, lastRemaining, clock>>

cmdRun(a) ==
    /\ \E sps \in (IF a = NoArg THEN {lastSps} ELSE atoi(a)) :
           /\ setDir(sps < 0)
           /\ setSpeedSps(IF sps < 0 THEN 0 - sps ELSE sps)
    /\ continuous' = TRUE
    /\ remaining' = 0
    /\ setEnable(TRUE)
    /\ cmdHist
    /\ edges' = 0
    /\ lastMotion' = "run"
    /\ moveN' = 0
    /\ UNCHANGED <<nextStepUs, stepHigh, stepHighUntilUs, stepPin,
                   lastRemaining, clock>>

cmdMove(a, b) ==
    IF a = NoArg
    THEN /\ cmdHist
         /\ UNCHANGED <<runVars, pinVars, lastRemaining, clock, edges,
                        lastMotion, moveN>>
    ELSE LET steps == atol(a)
             abs == IF steps < 0 THEN 0 - steps ELSE steps
         IN /\ \E sps \in (IF b = NoArg THEN {lastSps} ELSE atoi(b)) :
                   setSpeedSps(IF sps < 0 THEN 0 - sps ELSE sps)
            /\ setDir(steps < 0)
            /\ continuous' = FALSE
            /\ remaining' = abs
            /\ setEnable(TRUE)
            /\ cmdHist
            /\ edges' = 0
            /\ lastMotion' = "move"
            /\ moveN' = abs
            /\ UNCHANGED <<nextStepUs, stepHigh, stepHighUntilUs, stepPin,
                           lastRemaining, clock>>

\* ------------------------------------------------------------ serviceStepper
\* mutant of reached: the two unsigned values are compared directly
reached_Raw(now, deadline) == now >= deadline

\* mutant of reached: the difference stays unsigned
reached_Unsigned(now, deadline) == U32(now - deadline) >= 0

\* (int32_t)(now - deadline) >= 0
reached(now, deadline) == signedDiff(now, deadline) >= 0

\* mutant of shouldStep: the enable flag is not consulted
shouldStep_IgnoresEnable == continuous \/ remaining > 0

shouldStep == enabled /\ (continuous \/ remaining > 0)

\* mutant of remainingAfterStep: the decrement is lost
remainingAfterStep_NoDecrement == remaining

\* mutant of remainingAfterStep: the count is taken down in every mode
remainingAfterStep_AnyMode == remaining - 1

\* if (!run.continuous && run.remaining > 0) run.remaining--;
remainingAfterStep ==
    IF ~continuous /\ remaining > 0 THEN remaining - 1 ELSE remaining

noEdge ==
    /\ stepWrites' = <<>>
    /\ UNCHANGED <<stepPin, stepHigh, stepHighUntilUs, nextStepUs, remaining>>

\* mutant of releasePulse: the step is counted at the falling edge as well
releasePulse_Counts(now) ==
    IF reached(now, stepHighUntilUs)
    THEN /\ stepPin' = LOW
         /\ stepHigh' = FALSE
         /\ stepWrites' = <<LOW>>
         /\ remaining' = remainingAfterStep
         /\ UNCHANGED <<stepHighUntilUs, nextStepUs>>
    ELSE noEdge

\* the branch taken when run.stepHigh is set
releasePulse(now) ==
    IF reached(now, stepHighUntilUs)
    THEN /\ stepPin' = LOW
         /\ stepHigh' = FALSE
         /\ stepWrites' = <<LOW>>
         /\ UNCHANGED <<stepHighUntilUs, nextStepUs, remaining>>
    ELSE noEdge

\* mutant of startPulse: the next step is scheduled without the interval
startPulse_NoInterval(now) ==
    IF shouldStep /\ reached(now, nextStepUs)
    THEN /\ stepPin' = HIGH
         /\ stepHigh' = TRUE
         /\ stepWrites' = <<HIGH>>
         /\ stepHighUntilUs' = U32(now + pulseWidthUs)
         /\ nextStepUs' = now
         /\ remaining' = remainingAfterStep
    ELSE noEdge

\* the rest of serviceStepper, taken when run.stepHigh is clear
startPulse(now) ==
    IF shouldStep /\ reached(now, nextStepUs)
    THEN /\ stepPin' = HIGH
         /\ stepHigh' = TRUE
         /\ stepWrites' = <<HIGH>>
         /\ stepHighUntilUs' = U32(now + pulseWidthUs)
         /\ nextStepUs' = U32(now + stepIntervalUs)
         /\ remaining' = remainingAfterStep
    ELSE noEdge

\* mutant of serviceStepper: a due step is started although a pulse is high
serviceStepper_Overlap(now) ==
    IF stepHigh /\ ~reached(now, nextStepUs)
    THEN releasePulse(now)
    ELSE startPulse(now)

\* mutant of serviceStepper: the release does not end the call, so a step
\* that is also due is started in the same call
serviceStepper_NoReturn(now) ==
    IF stepHigh /\ reached(now, stepHighUntilUs)
                /\ shouldStep /\ reached(now, nextStepUs)
    THEN /\ stepPin' = HIGH
         /\ stepHigh' = TRUE
         /\ stepWrites' = <<LOW, HIGH>>
         /\ stepHighUntilUs' = U32(now + pulseWidthUs)
         /\ nextStepUs' = U32(now + stepIntervalUs)
         /\ remaining' = remainingAfterStep
    ELSE IF stepHigh THEN releasePulse(now) ELSE startPulse(now)

serviceStepper(now) ==
    IF stepHigh THEN releasePulse(now) ELSE startPulse(now)

\* ---------------------------------------------------------------------- loop
\* if (!run.continuous && lastRemaining != 0 && run.remaining == 0)
moveDone(rem) == ~continuous /\ lastRemaining /= 0 /\ rem = 0

\* the last step wrote HIGH / LOW to STEP_PIN
Rose == \E i \in DOMAIN stepWrites : stepWrites[i] = HIGH
Fell == \E i \in DOMAIN stepWrites : stepWrites[i] = LOW

\* serviceStepper at time clock + d, then the "move done" check
loop(d) ==
    /\ clock' = U32(clock + d)
    /\ serviceStepper(clock')
    /\ reported' = moveDone(remaining')
    /\ lastRemaining' = remaining'
    /\ sinceRise' = (IF Rose' THEN 0 ELSE Min(sinceRise + d, Wrap))
    /\ riseInterval' = (IF Rose' THEN stepIntervalUs ELSE riseInterval)
    /\ edges' = (IF Rose' /\ lastMotion = "move"
                 THEN Min(edges + 1, MaxSteps + 1) ELSE edges)
    /\ UNCHANGED <<enabled, continuous, dir, stepIntervalUs, lastSps, dirPin,
                   enPin, lastMotion, moveN, cmpVars>>

\* iterations that find nothing to do are taken together as one long gap
gaps == TickGaps \cup (IF ~stepHigh /\ ~shouldStep THEN IdleGaps ELSE {})

Tick ==
    /\ ticks < MaxTicks
    /\ ticks' = ticks + 1
    /\ \E d \in gaps : loop(d)

LiveTick ==
    /\ UNCHANGED ticks
    /\ \E d \in LiveGaps : loop(d)

Enable == \E a \in BoolArgs : cmdEnable(a)
Dir == \E a \in BoolArgs : cmdDir(a)
Stop == cmdStop
Run == \E a \in SpsArgs : cmdRun(a)
Move == \E a \in StepArgs, b \in SpsArgs : cmdMove(a, b)

Command == Enable \/ Dir \/ Stop \/ Run \/ Move

Next == Command \/ Tick
Spec == Init /\ [][Next]_vars

\* A deeper run with fewer command lines: long enough for the clock to come
\* up to its wrap while the motor is stepping.
WrapTick ==
    /\ ticks < MaxWrapTicks
    /\ ticks' = ticks + 1
    /\ \E d \in gaps : loop(d)

WrapEnable == \E a \in {Num(0), Num(1)} : cmdEnable(a)
WrapRun == \E a \in {NoArg, Num(50000)} : cmdRun(a)
WrapMove == cmdMove(Num(1), Num(50000))

NextWrap == WrapEnable \/ WrapRun \/ WrapMove \/ cmdStop \/ WrapTick
SpecWrap == Init /\ [][NextWrap]_vars

NextLive == Command \/ LiveTick
SpecLive == Init /\ [][NextLive]_vars /\ WF_vars(LiveTick)

\* ----------------------------------------------- the deadline comparison alone
\* deadlines at the start, around half the wrap period and just before the wrap
CmpDeadlines == {0, 1, 5, 2000, HalfWrap - 3, HalfWrap - 1, HalfWrap,
                 HalfWrap + 1, Wrap - 2000, Wrap - 25, Wrap - 3, Wrap - 1}
\* true time from the deadline to now; negative while the deadline is ahead
CmpOffsets == {0, 1, 3, 25, 2000, HalfWrap - 1, HalfWrap,
               -1, -3, -25, -2000, 1 - HalfWrap, -HalfWrap}

InitCmp ==
    /\ enabled = FALSE /\ continuous = FALSE /\ dir = FALSE /\ remaining = 0
    /\ stepIntervalUs = 2000 /\ nextStepUs = 0
    /\ stepHigh = FALSE /\ stepHighUntilUs = 0 /\ lastSps = 500
    /\ stepPin = LOW /\ dirPin = LOW /\ enPin = HIGH
    /\ lastRemaining = -1 /\ clock = 0
    /\ stepWrites = <<>> /\ reported = FALSE
    /\ sinceRise = Wrap /\ riseInterval = 0
    /\ edges = 0 /\ lastMotion = "none" /\ moveN = 0 /\ ticks = 0
    /\ cmpDeadline \in CmpDeadlines
    /\ cmpOffset \in CmpOffsets
    /\ cmpResult = "none"

\* micros() has wrapped to deadline + offset; the comparison of
\* serviceStepper is applied to that reading
Compare ==
    /\ cmpResult = "none"
    /\ cmpResult' = (IF reached(U32(cmpDeadline + cmpOffset), cmpDeadline)
                     THEN "reached" ELSE "waiting")
    /\ UNCHANGED <<runVars, pinVars, lastRemaining, clock, histVars,
                   cmpDeadline, cmpOffset>>

SpecCmp == InitCmp /\ [][Compare]_vars

\* =================================================================== claims

\* C1: after a move of N steps, while that move is the last motion command,
\* remaining is never negative and the rising edges fired so far plus
\* remaining make N; and once no further command line arrives, with enabled
\* left true, remaining reaches 0 with exactly N rising edges fired.
C1_FiniteMoveExact ==
    /\ [](lastMotion = "move" => remaining >= 0 /\ edges + remaining = moveN)
    /\ (<>[][LiveTick]_vars)
           => <>[](lastMotion = "move" /\ enabled
                      => remaining = 0 /\ edges = moveN)

\* a move of MaxSteps steps has completed with MaxSteps rising edges
C1_Witness ==
    /\ lastMotion = "move" /\ moveN = MaxSteps
    /\ edges = MaxSteps /\ remaining = 0

\* C2: a step that writes HIGH to the step pin starts with no pulse active
\* and the pin low, so a falling edge lies between any two rising edges.
C2_NoPulseOverlap ==
    [][Rose' => ~stepHigh /\ stepPin = LOW /\ ~Fell']_vars

\* a second rising edge has fired after the first pulse was released
C2_Witness == Rose /\ lastMotion = "move" /\ edges = 2

\* C3: when the step pin is written LOW, at least pulseWidthUs of real time
\* has passed since the rising edge of that pulse.
C3_PulseWidth == Fell => sinceRise >= pulseWidthUs

\* a pulse that rose before the clock wrapped is released after the wrap
C3_Witness ==
    /\ Fell
    /\ stepHighUntilUs < pulseWidthUs
    /\ clock < 2 * pulseWidthUs
    /\ sinceRise > clock

\* a step that is one loop() iteration (micros() has advanced)
IsLoop == clock' /= clock

\* C4: a loop() iteration whose rising edge takes remaining from nonzero to
\* zero prints "move done" in that iteration, and the iteration after one
\* that printed it does not print it again.
C4_MoveDoneOnce ==
    [][/\ (Rose' /\ remaining > 0 /\ remaining' = 0 => reported')
       /\ (reported => ~reported')]_vars

\* C5: "move done" is printed only by a loop() iteration whose rising edge
\* takes the remaining count of a finite move from nonzero to zero.
C5_MoveDoneOnlyOnCompletion ==
    [][reported' => /\ lastMotion = "move"
                    /\ ~continuous
                    /\ Rose'
                    /\ remaining > 0 /\ remaining' = 0]_vars

\* C6: while stop is the last motion command, continuous is false and
\* remaining is 0, no step writes HIGH to the step pin, and a loop()
\* iteration that finds a pulse high pulseWidthUs or more after its rising
\* edge writes the pin LOW.
C6_StopSoftFinal ==
    /\ [](lastMotion = "stop" => ~continuous /\ remaining = 0)
    /\ [][lastMotion = "stop" =>
             /\ ~Rose'
             /\ (IsLoop /\ stepHigh /\ sinceRise' >= pulseWidthUs
                    => Fell' /\ ~stepHigh' /\ stepPin' = LOW)]_vars

\* a pulse that was high when stop arrived has been released after it
C6_Witness == lastMotion = "stop" /\ Fell

\* C7: a step that clears enabled leaves the step pin and the pulse phase
\* alone; with enabled clear, a loop() iteration that finds a pulse high
\* pulseWidthUs or more after its rising edge writes the pin LOW, and no step
\* writes it HIGH.
C7_DisableMidPulse ==
    [][/\ (enabled /\ ~enabled'
              => UNCHANGED <<stepPin, stepHigh, stepHighUntilUs, nextStepUs>>)
       /\ (~enabled /\ IsLoop /\ stepHigh /\ sinceRise' >= pulseWidthUs
              => Fell' /\ ~stepHigh' /\ stepPin' = LOW)
       /\ (~enabled => ~Rose')]_vars

\* the pulse of an unfinished move was released while the driver is disabled
C7_Witness == ~enabled /\ Fell /\ remaining > 0

\* C8: a step that starts with a pulse high changes neither the direction
\* field nor the direction pin.
C8_DirStableInPulse ==
    [][stepHigh => dir' = dir /\ dirPin' = dirPin]_vars

\* C9: a motion command line whose numeric argument is missing or is not a
\* number leaves the motion state and the enable and direction pins as they
\* were.
C9_InvalidArgNoOp ==
    [][(\/ \E a \in {NoArg, Junk} : cmdEnable(a) \/ cmdDir(a) \/ cmdRun(a)
        \/ \E a \in {NoArg, Junk}, b \in SpsArgs : cmdMove(a, b)
        \/ \E a \in StepArgs : cmdMove(a, Junk))
          => UNCHANGED <<enabled, dir, continuous, remaining, stepIntervalUs,
                         lastSps, enPin, dirPin>>]_vars

Max(a, b) == IF a > b THEN a ELSE b

\* C10: the step interval leaves room for the pulse and its guard, the
\* stored speed lies in 1..40000, and the interval is the speed's period
\* raised to pulse width plus guard, so it lies in 25..1000000.
C10_SpeedInvariant ==
    /\ pulseWidthUs + 4 <= stepIntervalUs
    /\ 1 <= lastSps /\ lastSps <= 40000
    /\ stepIntervalUs = Max(1000000 \div lastSps, pulseWidthUs + 4)
    /\ 25 <= stepIntervalUs /\ stepIntervalUs <= 1000000

\* a speed above the cap was given and stored as the cap
C10_Witness == lastSps = 40000 /\ stepIntervalUs = 25

\* C11: continuous implies remaining = 0 in every reachable state, and a
\* loop() iteration that starts in a continuous run leaves remaining as it is.
C11_ContinuousKeepsRemaining ==
    /\ [](continuous => remaining = 0)
    /\ [][continuous /\ IsLoop => remaining' = remaining]_vars

\* a second rising edge of a continuous run has fired
C11_Witness == continuous /\ Rose /\ ticks = 3 /\ riseInterval = 25

\* C12: a reading that is truly past the deadline by less than half the
\* wrap period compares as reached, and a reading that is truly before the
\* deadline by less than half the wrap period compares as not reached,
\* wherever the deadline and the reading lie relative to the wrap.
C12_WrapSafeCompare ==
    cmpResult /= "none" =>
        /\ (0 <= cmpOffset /\ cmpOffset < HalfWrap) => cmpResult = "reached"
        /\ (-HalfWrap < cmpOffset /\ cmpOffset < 0) => cmpResult = "waiting"

\* the deadline lies just before the wrap and the reading just after it
C12_Witness ==
    /\ cmpDeadline = Wrap - 1 /\ cmpOffset = 3
    /\ U32(cmpDeadline + cmpOffset) = 2
    /\ cmpResult = "reached"

\* C13: a step that is not a loop() iteration, that is a command, leaves
\* stepHigh, stepHighUntilUs, nextStepUs and the STEP pin as they are; an
\* enable command also leaves continuous and remaining as they are; and a
\* rising edge schedules the next one with the interval in force at the edge.
C13_CommandsKeepPulsePhase ==
    /\ [][~IsLoop => UNCHANGED <<stepHigh, stepHighUntilUs, nextStepUs, stepPin>>]_vars
    /\ [][(\E a \in BoolArgs : cmdEnable(a)) => UNCHANGED <<continuous, remaining>>]_vars
    /\ [][IsLoop /\ Rose' => nextStepUs' = U32(clock' + stepIntervalUs)]_vars

\* a command has changed the speed while the pulse of the last edge is high
C13_Witness ==
    /\ stepHigh /\ stepWrites = <<>> /\ sinceRise < Wrap
    /\ stepIntervalUs /= riseInterval
    /\ nextStepUs = U32(stepHighUntilUs - pulseWidthUs + riseInterval)

\* the speed and the interval that a requested speed of v steps/s stands for
SpeedOf(v) == Max(1, Min(IF v < 0 THEN 0 - v ELSE v, 40000))
IntervalOf(sps) == Max(1000000 \div sps, pulseWidthUs + 4)
NumSteps == {Num(n) : n \in (0 - MaxSteps) .. MaxSteps}
NumSps == {a \in SpsArgs : a.k = "num"}

\* C14: a move with a numeric step count, from any state, leaves
\* dir = (steps < 0) on the DIR pin, remaining = |steps|, continuous = FALSE,
\* enabled = TRUE; with a numeric speed the speed becomes |sps| within
\* 1..40000, and with the speed omitted lastSps stays as it was.
C14_MoveResult ==
    [][\A a \in NumSteps, b \in NumSps \cup {NoArg} :
         cmdMove(a, b) =>
             /\ dir' = (a.v < 0) /\ dirPin' = (IF a.v < 0 THEN HIGH ELSE LOW)
             /\ remaining' = (IF a.v < 0 THEN 0 - a.v ELSE a.v)
             /\ continuous' = FALSE
             /\ enabled' = TRUE /\ enPin' = LOW
             /\ lastSps' = (IF b = NoArg THEN lastSps ELSE SpeedOf(b.v))
             /\ stepIntervalUs' = IntervalOf(lastSps')]_vars

\* C15: a run, from any state, leaves continuous = TRUE, remaining = 0 and
\* enabled = TRUE; with a numeric speed, dir = (sps < 0) on the DIR pin and the
\* speed becomes |sps| within 1..40000; with the speed omitted lastSps stays
\* as it was and gives the interval.
C15_RunResult ==
    [][\A a \in NumSps \cup {NoArg} :
         cmdRun(a) =>
             /\ continuous' = TRUE /\ remaining' = 0
             /\ enabled' = TRUE /\ enPin' = LOW
             /\ a /= NoArg => /\ dir' = (a.v < 0)
                              /\ dirPin' = (IF a.v < 0 THEN HIGH ELSE LOW)
             /\ lastSps' = (IF a = NoArg THEN lastSps ELSE SpeedOf(a.v))
             /\ stepIntervalUs' = IntervalOf(lastSps')]_vars

\* C16: a loop() iteration leaves remaining as it is or takes exactly 1 off
\* it, and it takes 1 off exactly when it writes a rising edge while
\* continuous is clear and remaining > 0; an iteration that releases a pulse,
\* that writes nothing, or that starts in a continuous run keeps remaining.
C16_OneDecrementPerRise ==
    [][IsLoop =>
        /\ remaining' = remaining \/ remaining' = remaining - 1
        /\ (remaining' = remaining - 1) <=> (Rose' /\ ~continuous /\ remaining > 0)
        /\ (Fell' \/ stepWrites' = <<>> \/ continuous) => remaining' = remaining]_vars

\* the first rising edge of a two-step move has been counted
C16_Witness ==
    /\ Rose /\ ~continuous /\ lastMotion = "move"
    /\ moveN = 2 /\ edges = 1 /\ remaining = 1

\* C17: a loop() iteration that starts with no pulse high and shouldStep set,
\* at a real time that is at or past the moment nextStepUs was scheduled for
\* (the last rising edge plus the interval used there, or startup), writes a
\* rising edge, however long the sketch has been idle before.
C17_DueStepFires ==
    [][(/\ IsLoop /\ ~stepHigh /\ shouldStep
        /\ sinceRise + U32(clock' - clock) >= riseInterval) => Rose']_vars

\* C18: a loop() iteration that starts with a pulse high writes no rising
\* edge and leaves every Runner field but stepHigh as it is; before
\* pulseWidthUs has passed since the rise it also leaves stepHigh and the STEP
\* pin as they are, and from then on it only writes LOW and clears stepHigh.
\* No iteration writes the STEP pin more than once.
C18_ReleaseOnly ==
    /\ [][(IsLoop /\ stepHigh) =>
            /\ ~Rose'
            /\ UNCHANGED <<enabled, continuous, dir, remaining, stepIntervalUs,
                           nextStepUs, stepHighUntilUs, lastSps>>
            /\ IF sinceRise + U32(clock' - clock) < pulseWidthUs
               THEN stepWrites' = <<>> /\ UNCHANGED <<stepHigh, stepPin>>
               ELSE stepWrites' = <<LOW>> /\ ~stepHigh' /\ stepPin' = LOW]_vars
    /\ [][IsLoop => Len(stepWrites') <= 1]_vars

\* a pulse has been released by an iteration at which the next step was due
\* as well
C18_Witness ==
    /\ Fell /\ ~stepHigh /\ shouldStep
    /\ riseInterval > 0 /\ sinceRise >= riseInterval
    /\ reached(clock, nextStepUs)

\* C19: when a loop() iteration writes a rising edge, the real time since the
\* previous rising edge is at least the stepIntervalUs that was in force at
\* that previous edge, whatever commands came in between.
C19_MinEdgeSpacing ==
    [][(IsLoop /\ Rose') => sinceRise + U32(clock' - clock) >= riseInterval]_vars

\* a faster speed was commanded after an edge; an iteration at which the new
\* interval has passed but the one in force at the edge has not, has written
\* nothing
C19_Witness ==
    /\ ~stepHigh /\ shouldStep /\ stepWrites = <<>> /\ ticks >= 3
    /\ stepIntervalUs <= sinceRise /\ sinceRise < riseInterval

TypeOK ==
    /\ enabled \in BOOLEAN /\ continuous \in BOOLEAN /\ dir \in BOOLEAN
    /\ remaining \in 0 .. MaxSteps
    /\ stepIntervalUs \in 0 .. (Wrap - 1)
    /\ nextStepUs \in 0 .. (Wrap - 1)
    /\ stepHighUntilUs \in 0 .. (Wrap - 1)
    /\ clock \in 0 .. (Wrap - 1)
    /\ stepHigh \in BOOLEAN
    /\ stepHigh = (stepPin = HIGH)
====
